---- MODULE Spec2Model ----
(***************************************************************************)
(* Model of app/main.py (Author Profile Analysis over OpenAlex):           *)
(*   - compute_coauthor_ranking_articles_only_merge_by_name                *)
(*   - compute_rate_ranking / citation_rate                                *)
(*   - fetch_openalex_works (cursor pagination, record cap, errors)        *)
(*   - search_openalex_authors / compute_author_concepts (gather + join)   *)
(*                                                                         *)
(* Encoding.  A Python str is a sequence of code points.  An optional     *)
(* value (a dict field that may be None or absent) is a sequence of        *)
(* length <= 1: None is <<>>, a present value x is <<x>>.  A float that is *)
(* the quotient of two integers is kept as the pair <<num, den>> and       *)
(* compared by cross-multiplication.                                       *)
(***************************************************************************)
EXTENDS Integers, Sequences, FiniteSets, TLC

VARIABLES
    \* compute_coauthor_ranking_articles_only_merge_by_name(raw_works, main_author_id, top_n)
    raw_works, main_author_id, co_top_n, co_pc, co_result,
    \* compute_rate_ranking(works, top_n) and the clock behind current_year()
    rk_works, rk_top_n, now, rk_pc, rk_result,
    \* fetch_openalex_works: position in the loop, cursor, len(works), the last
    \* response r, the exception raised and the list returned (its length)
    f_pc, cursor, works_len, r, f_exc, f_result,
    \* search_openalex_authors: position, results of the search response, out,
    \* the compute_author_concepts tasks, what gather returned, the exception
    s_pc, results, out, tasks, concepts_list, s_exc,
    \* the /ranking endpoint: the list raw that the fetch returned, the
    \* author_id of the query, position, the response
    rq_raw, rq_author_id, rq_pc, rq_response,
    \* the source's pages by cursor, the log of the page requests it served,
    \* and the records of works (one run per batch), kept in SpecPaged only
    source, requests, works

coVars == <<raw_works, main_author_id, co_top_n, co_pc, co_result>>
rkVars == <<rk_works, rk_top_n, now, rk_pc, rk_result>>
fVars == <<f_pc, cursor, works_len, r, f_exc, f_result>>
sVars == <<s_pc, results, out, tasks, concepts_list, s_exc>>
qVars == <<rq_raw, rq_author_id, rq_pc, rq_response>>
pVars == <<source, requests, works>>
vars == <<coVars, rkVars, fVars, sVars, qVars, pVars>>

----------------------------------------------------------------------------
(* Optional values and strings *)

None == <<>>
Some(x) == <<x>>
IsNone(o) == Len(o) = 0
Get(o) == o[1]

Min(a, b) == IF a <= b THEN a ELSE b
Max(a, b) == IF a >= b THEN a ELSE b

\* Python's slice s[:n] for n >= 0
Take(s, n) == SubSeq(s, 1, Min(n, Len(s)))

\* str < str: lexicographic by code point, a proper prefix is smaller
StrLess(a, b) ==
    \E i \in 1..Len(b) :
        /\ \A j \in 1..(i - 1) : j <= Len(a) /\ a[j] = b[j]
        /\ (i > Len(a) \/ a[i] < b[i])

\* the ASCII whitespace str.strip() and the regex class \s both match
IsSpace(c) == c \in {9, 10, 11, 12, 13, 32}

\* str.lower() on ASCII: 'A'..'Z' -> 'a'..'z'
LowerChar(c) == IF c >= 65 /\ c <= 90 THEN c + 32 ELSE c
Lower(s) == [i \in 1..Len(s) |-> LowerChar(s[i])]

RECURSIVE LStrip(_)
LStrip(s) == IF Len(s) > 0 /\ IsSpace(s[1]) THEN LStrip(Tail(s)) ELSE s

RECURSIVE RStrip(_)
RStrip(s) ==
    IF Len(s) > 0 /\ IsSpace(s[Len(s)]) THEN RStrip(SubSeq(s, 1, Len(s) - 1)) ELSE s

\* str.strip()
Strip(s) == RStrip(LStrip(s))

\* re.sub(r"\s+", " ", s): every maximal run of whitespace becomes one space
RECURSIVE CollapseSpaces(_)
CollapseSpaces(s) ==
    IF Len(s) = 0 THEN <<>>
    ELSE IF IsSpace(s[1])
         THEN <<32>> \o CollapseSpaces(LStrip(s))
         ELSE <<s[1]>> \o CollapseSpaces(Tail(s))

\* s.startswith(p)
StartsWith(s, p) == Len(s) >= Len(p) /\ SubSeq(s, 1, Len(p)) = p

----------------------------------------------------------------------------
(* String literals of the source and of the inputs *)

HttpStr == <<104, 116, 116, 112>>                         \* "http"
OpenAlexPrefix ==                                          \* "https://openalex.org/"
    <<104, 116, 116, 112, 115, 58, 47, 47, 111, 112, 101, 110,
      97, 108, 101, 120, 46, 111, 114, 103, 47>>
ArticleStr == <<97, 114, 116, 105, 99, 108, 101>>          \* "article"
UnknownStr == <<85, 110, 107, 110, 111, 119, 110>>         \* "Unknown"

----------------------------------------------------------------------------
(* Co-author ranking (articles only, merge by name) *)

_canonical_author_id(openalex_author_id) ==
    IF StartsWith(openalex_author_id, HttpStr)
    THEN openalex_author_id
    ELSE OpenAlexPrefix \o openalex_author_id

\* variant of is_published_article that compares the tag as it is written
is_published_article_exact(raw_work) ==
    ~IsNone(raw_work.type) /\ Get(raw_work.type) = ArticleStr

\* (raw_work.get("type") or "").lower().strip() == "article"
is_published_article(raw_work) ==
    LET t == IF IsNone(raw_work.type) THEN <<>> ELSE Get(raw_work.type)
    IN  Strip(Lower(t)) = ArticleStr

\* text after the last space of s
RECURSIVE LastWord(_)
LastWord(s) ==
    IF \E i \in 1..Len(s) : s[i] = 32
    THEN LastWord(Tail(s))
    ELSE s

\* variant of normalize_person_name that keys a person on the surname alone
normalize_person_name_surname(name) ==
    IF Len(name) = 0 THEN <<>> ELSE LastWord(CollapseSpaces(Lower(Strip(name))))

normalize_person_name(name) ==
    IF Len(name) = 0 THEN <<>> ELSE CollapseSpaces(Lower(Strip(name)))

\* article_works = [w for w in raw_works if is_published_article(w)]
article_works(rws) == SelectSeq(rws, is_published_article)

\* The authorship entries the two nested loops visit, in visiting order.
RECURSIVE ScanOrder(_)
ScanOrder(ws) ==
    IF Len(ws) = 0 THEN <<>> ELSE Head(ws).authorships \o ScanOrder(Tail(ws))

\* index of the aggregate of name key k in the tables, 0 when k is a new key
KeyIndex(tab, k) ==
    IF \E i \in 1..Len(tab) : tab[i].name_key = k
    THEN CHOOSE i \in 1..Len(tab) : tab[i].name_key = k
    ELSE 0

\* name_ids[key][aid] += 1 on a Counter kept in insertion order
BumpId(ids, aid) ==
    IF \E i \in 1..Len(ids) : ids[i].id = aid
    THEN [i \in 1..Len(ids) |->
            IF ids[i].id = aid THEN [ids[i] EXCEPT !.n = @ + 1] ELSE ids[i]]
    ELSE Append(ids, [id |-> aid, n |-> 1])

\* One iteration of the inner loop over an authorship entry a.  tab holds
\* name_counts, name_display and name_ids, one row per name key in the
\* insertion order of name_counts.
ScanEntry(tab, a, main_id) ==
    IF IsNone(a.id) \/ Len(Get(a.id)) = 0 \/ Get(a.id) = main_id
    THEN tab
    ELSE LET aid  == Get(a.id)
             disp == IF IsNone(a.display_name) \/ Len(Get(a.display_name)) = 0
                     THEN UnknownStr ELSE Get(a.display_name)
             key  == normalize_person_name(disp)
             i    == KeyIndex(tab, key)
         IN  IF Len(key) = 0 THEN tab
             ELSE IF i = 0
             THEN Append(tab, [name_key |-> key, count |-> 1, name |-> disp,
                               ids |-> <<[id |-> aid, n |-> 1]>>])
             ELSE [tab EXCEPT ![i] =
                     [name_key |-> key,
                      count    |-> @.count + 1,
                      name     |-> IF Len(disp) > Len(@.name) THEN disp ELSE @.name,
                      ids      |-> BumpId(@.ids, aid)]]

RECURSIVE ScanAll(_, _, _)
ScanAll(tab, entries, main_id) ==
    IF Len(entries) = 0 THEN tab
    ELSE ScanAll(ScanEntry(tab, Head(entries), main_id), Tail(entries), main_id)

\* variant of most_common_id that returns the first identifier seen
most_common_id_first_seen(ids) == ids[1].id

\* name_ids[key].most_common(1)[0][0]: the first identifier, in insertion
\* order, among those with the greatest occurrence count
most_common_id(ids) ==
    LET i == CHOOSE i \in 1..Len(ids) :
                 /\ \A j \in 1..Len(ids) : ids[j].n <= ids[i].n
                 /\ \A j \in 1..(i - 1) : ids[j].n < ids[i].n
    IN  ids[i].id

\* the dict appended to items for one name key
CoauthorItem(row) ==
    [name_key   |-> row.name_key,
     name       |-> row.name,
     count      |-> row.count,
     author_id  |-> most_common_id(row.ids),
     merged_ids |-> Len(row.ids)]

\* key=lambda x: (x["count"], x["name"]): tuple comparison
CoauthorKeyLess(x, y) ==
    \/ x.count < y.count
    \/ x.count = y.count /\ StrLess(x.name, y.name)

\* items.sort(key=..., reverse=True): descending by key, stable (items with
\* equal keys keep their relative order).  x goes after every item whose
\* key is not smaller than x's.
RECURSIVE CoauthorInsert(_, _)
CoauthorInsert(sorted, x) ==
    IF Len(sorted) = 0 THEN <<x>>
    ELSE IF CoauthorKeyLess(Head(sorted), x)
         THEN <<x>> \o sorted
         ELSE <<Head(sorted)>> \o CoauthorInsert(Tail(sorted), x)

RECURSIVE CoauthorSortFrom(_, _)
CoauthorSortFrom(done, todo) ==
    IF Len(todo) = 0 THEN done
    ELSE CoauthorSortFrom(CoauthorInsert(done, Head(todo)), Tail(todo))

CoauthorSort(items) == CoauthorSortFrom(<<>>, items)

\* the tables after the scan of the qualifying articles
CoauthorTables(rws, maid) ==
    ScanAll(<<>>, ScanOrder(article_works(rws)), _canonical_author_id(maid))

\* returns (items[:top_n], len(article_works))
compute_coauthor_ranking_articles_only_merge_by_name(rws, maid, n) ==
    LET tab   == CoauthorTables(rws, maid)
        items == [i \in 1..Len(tab) |-> CoauthorItem(tab[i])]
    IN  [items |-> Take(CoauthorSort(items), n),
         counted_articles |-> Len(article_works(rws))]

----------------------------------------------------------------------------
(* Citation rate ranking *)

\* variant of citation_rate whose age is not floored at zero
citation_rate_no_floor(citations, year, now_year) ==
    <<citations, 1 + (now_year - year)>>

\* citations / (1 + age), the float kept as <<numerator, denominator>>
citation_rate(citations, year, now_year) ==
    LET age == Max(0, now_year - year)
    IN  <<citations, 1 + age>>

\* float comparison of two quotients with positive denominators
RateLess(p, q) == p[1] * q[2] < q[1] * p[2]
RateEq(p, q) == p[1] * q[2] = q[1] * p[2]

\* (x.get("title") or "")
TitleOrEmpty(x) == IF IsNone(x.title) THEN <<>> ELSE Get(x.title)

\* variant of RateKeyLess whose key stops at the year
RateKeyLessNoTitle(x, y) ==
    \/ RateLess(x.citation_rate, y.citation_rate)
    \/ /\ RateEq(x.citation_rate, y.citation_rate)
       /\ \/ x.citations < y.citations
          \/ x.citations = y.citations /\ Get(x.year) < Get(y.year)

\* key=lambda x: (citation_rate, citations, year, title or ""): tuple comparison
RateKeyLess(x, y) ==
    \/ RateLess(x.citation_rate, y.citation_rate)
    \/ /\ RateEq(x.citation_rate, y.citation_rate)
       /\ \/ x.citations < y.citations
          \/ /\ x.citations = y.citations
             /\ \/ Get(x.year) < Get(y.year)
                \/ /\ Get(x.year) = Get(y.year)
                   /\ StrLess(TitleOrEmpty(x), TitleOrEmpty(y))

\* rated.sort(key=..., reverse=True): descending by key, stable
RECURSIVE RateInsert(_, _)
RateInsert(sorted, x) ==
    IF Len(sorted) = 0 THEN <<x>>
    ELSE IF RateKeyLess(Head(sorted), x)
         THEN <<x>> \o sorted
         ELSE <<Head(sorted)>> \o RateInsert(Tail(sorted), x)

RECURSIVE RateSortFrom(_, _)
RateSortFrom(done, todo) ==
    IF Len(todo) = 0 THEN done
    ELSE RateSortFrom(RateInsert(done, Head(todo)), Tail(todo))

\* the loop building rated: works without an int year are skipped, the
\* others are copied (item = dict(w)) and get their citation_rate
RECURSIVE Rated(_, _)
Rated(ws, now_year) ==
    IF Len(ws) = 0 THEN <<>>
    ELSE LET w == Head(ws)
         IN  IF IsNone(w.year) THEN Rated(Tail(ws), now_year)
             ELSE << [citation_rate |->
                          citation_rate(w.citations, Get(w.year), now_year)] @@ w >>
                  \o Rated(Tail(ws), now_year)

\* returns rated[:top_n]; now_year is the value of current_year()
compute_rate_ranking(ws, n, now_year) ==
    Take(RateSortFrom(<<>>, Rated(ws, now_year)), n)

----------------------------------------------------------------------------
(* fetch_openalex_works: one action per page request.  works is kept by its *)
(* length; a response is [status_code, results_len, next_cursor, text_len]. *)

per_page == 200
RecordCap == 15000

\* not next_cursor: None or the empty string
NoCursor(nc) == IsNone(nc) \/ Get(nc) = ""

HTTPException(status_code, upstream, text_len) ==
    [type |-> "HTTPException", status_code |-> Some(status_code),
     upstream |-> Some(upstream), text_len |-> Some(text_len)]

\* what client.get raises when the request times out
TimeoutException ==
    [type |-> "httpx.TimeoutException", status_code |-> None,
     upstream |-> None, text_len |-> None]

\* variant of Page200 that assigns the page to works instead of extending it
Page200Assign(n, nc) ==
    /\ f_pc = "request"
    /\ r' = Some([status_code |-> 200, results_len |-> n, next_cursor |-> nc,
                  text_len |-> 0])
    /\ works_len' = n
    /\ IF NoCursor(nc)
       THEN /\ f_pc' = "returned" /\ f_result' = Some(works_len')
            /\ UNCHANGED cursor
       ELSE /\ cursor' = Get(nc)
            /\ IF works_len' > RecordCap
               THEN f_pc' = "returned" /\ f_result' = Some(works_len')
               ELSE f_pc' = "request" /\ UNCHANGED f_result
    /\ UNCHANGED <<f_exc, coVars, rkVars, sVars, qVars>>

\* the request is answered with status 200, n records and next cursor nc
Page200(n, nc) ==
    /\ f_pc = "request"
    /\ r' = Some([status_code |-> 200, results_len |-> n, next_cursor |-> nc,
                  text_len |-> 0])
    /\ works_len' = works_len + n
    /\ IF NoCursor(nc)
       THEN /\ f_pc' = "returned" /\ f_result' = Some(works_len')
            /\ UNCHANGED cursor
       ELSE /\ cursor' = Get(nc)
            /\ IF works_len' > RecordCap
               THEN f_pc' = "returned" /\ f_result' = Some(works_len')
               ELSE f_pc' = "request" /\ UNCHANGED f_result
    /\ UNCHANGED <<f_exc, coVars, rkVars, sVars, qVars>>

\* variant of PageNon200 that leaves the loop and returns what was accumulated
PageNon200Break(status, text_len) ==
    /\ f_pc = "request"
    /\ r' = Some([status_code |-> status, results_len |-> 0, next_cursor |-> None,
                  text_len |-> text_len])
    /\ f_pc' = "returned"
    /\ f_result' = Some(works_len)
    /\ UNCHANGED <<cursor, works_len, f_exc, coVars, rkVars, sVars, qVars>>

\* the request is answered with a status other than 200 and a body of
\* text_len characters: raise HTTPException(502, ...status... text[:200])
PageNon200(status, text_len) ==
    /\ f_pc = "request"
    /\ r' = Some([status_code |-> status, results_len |-> 0, next_cursor |-> None,
                  text_len |-> text_len])
    /\ f_exc' = Some(HTTPException(502, status, Min(text_len, 200)))
    /\ f_pc' = "raised"
    /\ UNCHANGED <<cursor, works_len, f_result, coVars, rkVars, sVars, qVars>>

\* the request times out (timeout=50): client.get raises, nothing catches it
PageTimeout ==
    /\ f_pc = "request"
    /\ f_exc' = Some(TimeoutException)
    /\ f_pc' = "raised"
    /\ UNCHANGED <<cursor, works_len, r, f_result, coVars, rkVars, sVars, qVars>>

----------------------------------------------------------------------------
(* compute_author_concepts and search_openalex_authors.  Author identifiers, *)
(* display names and concept names are opaque here and kept as strings.  A   *)
(* score 1.0 + 0.0005 * cited is kept multiplied by 2000: 2000 + cited.      *)

top_concepts_per_author == 3

\* scores[name] = scores.get(name, 0.0) + inc, the dict kept in insertion order
ScoreAdd(scores, name, inc) ==
    IF \E i \in 1..Len(scores) : scores[i].name = name
    THEN [i \in 1..Len(scores) |->
            IF scores[i].name = name THEN [scores[i] EXCEPT !.score = @ + inc]
            ELSE scores[i]]
    ELSE Append(scores, [name |-> name, score |-> inc])

\* the inner loop over the concepts of a work cited `cited` times
RECURSIVE ScanConcepts(_, _, _)
ScanConcepts(scores, concepts, cited) ==
    IF Len(concepts) = 0 THEN scores
    ELSE LET c == Head(concepts)
         IN  IF IsNone(c.display_name) \/ Get(c.display_name) = ""
             THEN ScanConcepts(scores, Tail(concepts), cited)
             ELSE IF ~IsNone(c.level) /\ Get(c.level) <= 1
             THEN ScanConcepts(scores, Tail(concepts), cited)
             ELSE ScanConcepts(ScoreAdd(scores, Get(c.display_name), 2000 + cited),
                               Tail(concepts), cited)

\* the outer loop over the works of the response
RECURSIVE ScanWorks(_, _)
ScanWorks(scores, ws) ==
    IF Len(ws) = 0 THEN scores
    ELSE ScanWorks(ScanConcepts(scores, Head(ws).concepts, Head(ws).cited_by_count),
                   Tail(ws))

\* sorted(scores.items(), key=lambda x: x[1], reverse=True): stable
RECURSIVE ScoreInsert(_, _)
ScoreInsert(sorted, x) ==
    IF Len(sorted) = 0 THEN <<x>>
    ELSE IF Head(sorted).score < x.score
         THEN <<x>> \o sorted
         ELSE <<Head(sorted)>> \o ScoreInsert(Tail(sorted), x)

RECURSIVE ScoreSortFrom(_, _)
ScoreSortFrom(done, todo) ==
    IF Len(todo) = 0 THEN done
    ELSE ScoreSortFrom(ScoreInsert(done, Head(todo)), Tail(todo))

\* what compute_author_concepts returns for a 200 response holding works ws
compute_author_concepts(ws, top_concepts) ==
    LET best == ScoreSortFrom(<<>>, ScanWorks(<<>>, ws))
        top  == Take(best, top_concepts)
    IN  [i \in 1..Len(top) |-> top[i].name]

\* item.get("id"): the candidate has a non-empty id
HasCandidateId(item) == ~IsNone(item.id) /\ Get(item.id) # ""

\* out: one dict per result, concepts empty
BuildOut(res) ==
    [i \in 1..Len(res) |->
        [id |-> res[i].id, display_name |-> res[i].display_name, concepts |-> <<>>]]

\* tasks: one compute_author_concepts coroutine per item of out with an id
BuildTasks(o) ==
    LET withId == SelectSeq(o, HasCandidateId)
    IN  [i \in 1..Len(withId) |->
            [author_id |-> Get(withId[i].id), state |-> "pending",
             kind |-> "pending", is_exception |-> FALSE, value |-> <<>>]]

\* variant of JoinFrom that pairs out and concepts_list like zip(out, concepts_list)
RECURSIVE JoinZip(_, _, _)
JoinZip(o, cl, idx) ==
    IF Len(o) = 0 THEN <<>>
    ELSE IF idx > Len(cl)
         THEN o
         ELSE << [Head(o) EXCEPT !.concepts =
                     IF cl[idx].is_exception THEN <<>> ELSE cl[idx].value] >>
              \o JoinZip(Tail(o), cl, idx + 1)

\* the final loop: idx walks concepts_list, items without id are skipped,
\* item["concepts"] = [] if isinstance(c, Exception) else c
RECURSIVE JoinFrom(_, _, _)
JoinFrom(o, cl, idx) ==
    IF Len(o) = 0 THEN <<>>
    ELSE IF ~HasCandidateId(Head(o))
         THEN <<Head(o)>> \o JoinFrom(Tail(o), cl, idx)
         ELSE << [Head(o) EXCEPT !.concepts =
                     IF cl[idx].is_exception THEN <<>> ELSE cl[idx].value] >>
              \o JoinFrom(Tail(o), cl, idx + 1)

C(name, level) == [display_name |-> name, level |-> level]

\* the works the source holds for an author, most cited first
SourceWorks(author_id) ==
    IF author_id = "A1"
    THEN << [cited_by_count |-> 400,
             concepts |-> << C(Some("Biology"), Some(0)), C(Some("Genetics"), Some(2)),
                             C(Some("Genomics"), Some(3)), C(None, Some(2)),
                             C(Some("Ecology"), None) >>],
            [cited_by_count |-> 0,
             concepts |-> << C(Some("Genomics"), Some(3)), C(Some("Ecology"), Some(2)),
                             C(Some("Botany"), Some(2)) >>] >>
    ELSE << [cited_by_count |-> 10,
             concepts |-> << C(Some("Physics"), Some(1)), C(Some("Optics"), Some(2)) >>] >>

\* the /authors request is answered with 200 and the candidates res: build
\* out, create the tasks and await gather
SearchOk(res) ==
    /\ s_pc = "search"
    /\ results' = res
    /\ out' = BuildOut(res)
    /\ tasks' = BuildTasks(out')
    /\ s_pc' = "gather"
    /\ UNCHANGED <<concepts_list, s_exc, coVars, rkVars, fVars, qVars, pVars>>

\* the /authors request is answered with another status
SearchNon200(status, text_len) ==
    /\ s_pc = "search"
    /\ s_exc' = Some(HTTPException(502, status, Min(text_len, 200)))
    /\ s_pc' = "raised"
    /\ UNCHANGED <<results, out, tasks, concepts_list, coVars, rkVars, fVars, qVars, pVars>>

\* task i's request completes: "ok" (200), "non200", "exception" (client.get
\* or r.json() raises) or "timeout" (client.get raises after timeout=40)
TaskFinish(i, kind) ==
    /\ s_pc = "gather"
    /\ i \in 1..Len(tasks)
    /\ tasks[i].state = "pending"
    /\ tasks' = [tasks EXCEPT ![i] =
          [author_id    |-> @.author_id,
           state        |-> "done",
           kind         |-> kind,
           is_exception |-> kind \in {"exception", "timeout"},
           value        |-> IF kind = "ok"
                            THEN compute_author_concepts(SourceWorks(@.author_id),
                                                         top_concepts_per_author)
                            ELSE <<>>]]
    /\ UNCHANGED <<s_pc, results, out, concepts_list, s_exc, coVars, rkVars, fVars, qVars, pVars>>

\* every task is done: gather(*tasks, return_exceptions=True) returns their
\* outcomes in task order, the final loop fills out, out is returned
GatherJoin ==
    /\ s_pc = "gather"
    /\ \A i \in 1..Len(tasks) : tasks[i].state = "done"
    /\ concepts_list' = [i \in 1..Len(tasks) |->
                            [is_exception |-> tasks[i].is_exception,
                             value |-> tasks[i].value]]
    /\ out' = JoinFrom(out, concepts_list', 1)
    /\ s_pc' = "returned"
    /\ UNCHANGED <<results, tasks, s_exc, coVars, rkVars, fVars, qVars, pVars>>

----------------------------------------------------------------------------
(* Inputs of the co-author ranking *)

MaxWorks == 2       \* raw works per call
MaxEntries == 3     \* authorship entries per call, over all works
MaxTopN == 2        \* greatest top_n drawn

SubjectBare == <<65, 49>>                                  \* "A1"
SubjectFull == OpenAlexPrefix \o <<65, 49>>                \* "https://openalex.org/A1"
IdX == OpenAlexPrefix \o <<65, 50>>                        \* "https://openalex.org/A2"
IdY == OpenAlexPrefix \o <<65, 51>>                        \* "https://openalex.org/A3"

JDotSmith == <<74, 46, 32, 83, 109, 105, 116, 104>>                    \* "J. Smith"
JohnSmith == <<74, 111, 104, 110, 32, 83, 109, 105, 116, 104>>         \* "John Smith"
JohnSmithWide == <<106, 111, 104, 110, 32, 32, 115, 109, 105, 116, 104>> \* "john  smith"
AnnLee == <<65, 110, 110, 32, 76, 101, 101>>                           \* "Ann Lee"
SubjectName == <<83, 117, 98>>                                         \* "Sub"

TypeArticle == Some(ArticleStr)                                        \* "article"
TypeArticleLoose ==                                                    \* " Article "
    Some(<<32, 65, 114, 116, 105, 99, 108, 101, 32>>)
TypeBookChapter ==                                                     \* "book-chapter"
    Some(<<98, 111, 111, 107, 45, 99, 104, 97, 112, 116, 101, 114>>)

Author(id, display_name) == [id |-> id, display_name |-> display_name]

\* co-authors whose names merge or not: X and Y under several spellings
MergePool ==
    { Author(Some(IdX), Some(JDotSmith)),
      Author(Some(IdY), Some(JohnSmith)),
      Author(Some(IdX), Some(JohnSmithWide)),
      Author(Some(IdY), Some(AnnLee)) }

\* the subject under both forms of its identifier, and one co-author
SelfPool ==
    { Author(Some(SubjectBare), Some(SubjectName)),
      Author(Some(SubjectFull), Some(SubjectName)),
      Author(Some(IdX), Some(AnnLee)),
      Author(Some(IdY), Some(SubjectName)) }

SeqsUpTo(S, n) == UNION { [1..k -> S] : k \in 0..n }

\* every list of at most nw raw works with at most ne authorship entries in all
RECURSIVE RawWorkLists(_, _, _, _)
RawWorkLists(pool, types, nw, ne) ==
    IF nw = 0 THEN { <<>> }
    ELSE { <<>> } \cup
         UNION { { <<[type |-> t, authorships |-> as]>> \o rest :
                     rest \in RawWorkLists(pool, types, nw - 1, ne - Len(as)) } :
                 t \in types, as \in SeqsUpTo(pool, ne) }

----------------------------------------------------------------------------
(* Specifications of the co-author ranking: Init draws the arguments, the  *)
(* one action is the call.                                                 *)

RateIdle ==
    /\ rk_works = <<>> /\ rk_top_n = 0 /\ now = 0
    /\ rk_pc = "idle" /\ rk_result = <<>>

FetchIdle ==
    /\ f_pc = "idle" /\ cursor = "" /\ works_len = 0
    /\ r = <<>> /\ f_exc = <<>> /\ f_result = <<>>

SearchIdle ==
    /\ s_pc = "idle" /\ results = <<>> /\ out = <<>>
    /\ tasks = <<>> /\ concepts_list = <<>> /\ s_exc = <<>>

RankingIdle ==
    /\ rq_raw = <<>> /\ rq_author_id = <<>> /\ rq_pc = "idle" /\ rq_response = <<>>

PagedIdle ==
    /\ source = <<>> /\ requests = <<>> /\ works = <<>>

CoauthorIdle ==
    /\ raw_works = <<>> /\ main_author_id = <<>> /\ co_top_n = 0
    /\ co_pc = "idle" /\ co_result = [items |-> <<>>, counted_articles |-> 0]

InitCoauthor(pool, types, mains) ==
    /\ raw_works \in RawWorkLists(pool, types, MaxWorks, MaxEntries)
    /\ main_author_id \in mains
    /\ co_top_n \in 0..MaxTopN
    /\ co_pc = "ready"
    /\ co_result = [items |-> <<>>, counted_articles |-> 0]

CoauthorCall ==
    /\ co_pc = "ready"
    /\ co_result' = compute_coauthor_ranking_articles_only_merge_by_name(
                        raw_works, main_author_id, co_top_n)
    /\ co_pc' = "done"
    /\ UNCHANGED <<raw_works, main_author_id, co_top_n, rkVars, fVars, sVars, qVars, pVars>>

InitMerge ==
    /\ InitCoauthor(MergePool, {TypeArticle, TypeBookChapter}, {SubjectBare})
    /\ RateIdle /\ FetchIdle /\ SearchIdle /\ RankingIdle /\ PagedIdle

SpecMerge == InitMerge /\ [][CoauthorCall]_vars

InitSelf ==
    /\ InitCoauthor(SelfPool, {TypeArticle}, {SubjectBare, SubjectFull})
    /\ RateIdle /\ FetchIdle /\ SearchIdle /\ RankingIdle /\ PagedIdle

SpecSelf == InitSelf /\ [][CoauthorCall]_vars

----------------------------------------------------------------------------
(* Properties of the co-author ranking *)

\* name key under which an authorship entry with an identifier is counted
EntryKey(a) ==
    normalize_person_name(
        IF IsNone(a.display_name) \/ Len(Get(a.display_name)) = 0
        THEN UnknownStr ELSE Get(a.display_name))

HasId(a) == ~IsNone(a.id) /\ Len(Get(a.id)) > 0

\* whether identifier id denotes the subject, whatever the form of either
DenotesSubject(id) == _canonical_author_id(id) = _canonical_author_id(main_author_id)

QualifyingArticles == article_works(raw_works)

\* the co-author entries of the qualifying articles, in scan order
CoauthorEntries ==
    SelectSeq(ScanOrder(QualifyingArticles),
              LAMBDA a : HasId(a) /\ ~DenotesSubject(Get(a.id)) /\ Len(EntryKey(a)) > 0)

NameKeys == { EntryKey(CoauthorEntries[i]) : i \in 1..Len(CoauthorEntries) }

IdsUnder(key) ==
    { Get(CoauthorEntries[i].id) :
        i \in { j \in 1..Len(CoauthorEntries) : EntryKey(CoauthorEntries[j]) = key } }

\* the qualifying articles that list a co-author under name key key
ArticlesNaming(key) ==
    { i \in 1..Len(QualifyingArticles) :
        \E k \in 1..Len(QualifyingArticles[i].authorships) :
            LET a == QualifyingArticles[i].authorships[k]
            IN  HasId(a) /\ ~DenotesSubject(Get(a.id)) /\ EntryKey(a) = key }

Items == co_result.items
NotTruncated == Cardinality(NameKeys) <= co_top_n

\* C1: two authorship entries with distinct identifiers and the same
\* normalized display name give exactly one aggregate, with merged_ids = 2
\* and count = the number of distinct qualifying articles on which at least
\* one of the two identifiers appears (an article listing both adds 1).
C1_UnionCount ==
    co_pc = "done" =>
        /\ \A i, j \in 1..Len(Items) : Items[i].name_key = Items[j].name_key => i = j
        /\ \A key \in NameKeys :
               (Cardinality(IdsUnder(key)) = 2 /\ NotTruncated) =>
                   \E i \in 1..Len(Items) :
                       /\ Items[i].name_key = key
                       /\ Items[i].merged_ids = 2
                       /\ Items[i].count = Cardinality(ArticlesNaming(key))

\* raw_works with every authorship entry that denotes the subject removed
WithoutSubject(rws) ==
    [i \in 1..Len(rws) |->
        [rws[i] EXCEPT !.authorships =
            SelectSeq(@, LAMBDA a : ~(HasId(a) /\ DenotesSubject(Get(a.id))))]]

\* C2: whatever the form of main_author_id and of the identifiers in the
\* authorship entries, no entry that denotes the subject contributes to any
\* aggregate: the result is the one computed without those entries.
C2_SelfExcluded ==
    co_pc = "done" =>
        co_result = compute_coauthor_ranking_articles_only_merge_by_name(
                        WithoutSubject(raw_works), main_author_id, co_top_n)

\* every aggregate of the call, before sorting and truncation
AllAggregates ==
    LET tab == CoauthorTables(raw_works, main_author_id)
    IN  { CoauthorItem(tab[i]) : i \in 1..Len(tab) }

\* x is ranked before y: greater count, or equal count and smaller name
RankedBeforeAsc(x, y) ==
    \/ x.count > y.count
    \/ x.count = y.count /\ StrLess(x.name, y.name)

\* C3: the returned list is ordered by descending count and, among equal
\* counts, by ascending display name; it has at most top_n items, and these
\* are the first top_n of that ordering.
C3_OrderAscendingName ==
    co_pc = "done" =>
        /\ Len(Items) = Min(co_top_n, Cardinality(AllAggregates))
        /\ \A i \in 1..Len(Items) : Items[i] \in AllAggregates
        /\ \A i, j \in 1..Len(Items) : i < j => RankedBeforeAsc(Items[i], Items[j])
        /\ \A y \in AllAggregates :
               (\A i \in 1..Len(Items) : Items[i] # y) =>
                   \A i \in 1..Len(Items) : RankedBeforeAsc(Items[i], y)

\* the scenario: two qualifying articles, "J. Smith" (X) on one and
\* "John Smith" (Y) on the other
ArticleOf(a) == [type |-> TypeArticle, authorships |-> <<a>>]
IsSmithScenario ==
    /\ raw_works \in
         { << ArticleOf(Author(Some(IdX), Some(JDotSmith))),
              ArticleOf(Author(Some(IdY), Some(JohnSmith))) >>,
           << ArticleOf(Author(Some(IdY), Some(JohnSmith))),
              ArticleOf(Author(Some(IdX), Some(JDotSmith))) >> }
    /\ co_top_n >= 2

\* C4 (as stated): the scenario returns exactly one aggregate, named
\* "John Smith", with count 2 and merged_ids 2.
C4_SmithMergedAsStated ==
    (co_pc = "done" /\ IsSmithScenario) =>
        /\ Len(Items) = 1
        /\ Items[1].name = JohnSmith
        /\ Items[1].count = 2
        /\ Items[1].merged_ids = 2

\* C4 (amended): "J. Smith" and "John Smith" have different name keys, so
\* the scenario returns two aggregates: "John Smith" (identifier Y) then
\* "J. Smith" (identifier X), each with count 1 and merged_ids 1.
C4_SmithNotMerged ==
    (co_pc = "done" /\ IsSmithScenario) =>
        /\ Len(Items) = 2
        /\ Items[1].name = JohnSmith /\ Items[1].author_id = IdY
        /\ Items[2].name = JDotSmith /\ Items[2].author_id = IdX
        /\ \A i \in 1..2 : Items[i].count = 1 /\ Items[i].merged_ids = 1

C4_Witness == co_pc = "done" /\ IsSmithScenario

----------------------------------------------------------------------------
(* Specification of the citation rate ranking *)

MaxRateWorks == 2   \* normalized works per call

TitleA == <<65>>            \* "A"
TitleAb == <<65, 98>>       \* "Ab"

\* the values of current_year() drawn
CurrentYears == { 2025 }

\* normalized works: title, year (None, past, present, future), citations
RatePool ==
    { [title |-> t, year |-> y, citations |-> c] :
        t \in { None, Some(TitleA), Some(TitleAb) },
        y \in { None, Some(2024), Some(2025), Some(2026) },
        c \in { 0, 10, 20 } }

InitRate ==
    /\ rk_works \in SeqsUpTo(RatePool, MaxRateWorks)
    /\ rk_top_n \in 0..MaxTopN
    /\ now \in CurrentYears
    /\ rk_pc = "ready"
    /\ rk_result = <<>>
    /\ CoauthorIdle /\ FetchIdle /\ SearchIdle /\ RankingIdle /\ PagedIdle

RateCall ==
    /\ rk_pc = "ready"
    /\ rk_result' = compute_rate_ranking(rk_works, rk_top_n, now)
    /\ rk_pc' = "done"
    /\ UNCHANGED <<rk_works, rk_top_n, now, coVars, fVars, sVars, qVars, pVars>>

SpecRate == InitRate /\ [][RateCall]_vars

WithYear == { i \in 1..Len(rk_works) : ~IsNone(rk_works[i].year) }

\* C9: the returned list has at most min(top_n, number of input works that
\* have a year) items, and every returned citation rate is >= 0.
C9_LengthAndRateBound ==
    rk_pc = "done" =>
        /\ Len(rk_result) <= Min(rk_top_n, Cardinality(WithYear))
        /\ \A i \in 1..Len(rk_result) :
               rk_result[i].citation_rate[2] > 0 /\ rk_result[i].citation_rate[1] >= 0

\* a call over a work without a year and a work dated in the future, the
\* latter returned
C9_Witness ==
    /\ rk_pc = "done"
    /\ Cardinality(WithYear) < Len(rk_works)
    /\ \E i \in 1..Len(rk_result) : Get(rk_result[i].year) > now

\* x may stand before y: greater rate, then greater citation count, then
\* greater year, then greater or equal title
RankedNotAfter(x, y) ==
    LET rx == x.citations * (1 + Max(0, now - Get(y.year)))
        ry == y.citations * (1 + Max(0, now - Get(x.year)))
    IN  \/ rx > ry
        \/ /\ rx = ry
           /\ \/ x.citations > y.citations
              \/ /\ x.citations = y.citations
                 /\ \/ Get(x.year) > Get(y.year)
                    \/ /\ Get(x.year) = Get(y.year)
                       /\ ~StrLess(TitleOrEmpty(x), TitleOrEmpty(y))

\* C10: items come in descending order of citations / (1 + max(0,
\* current_year - year)); equal rates by descending citation count, then
\* descending year, then descending title.
C10_RateOrder ==
    rk_pc = "done" =>
        /\ \A i \in 1..Len(rk_result) :
               LET x == rk_result[i]
               IN  x.citation_rate[1] * (1 + Max(0, now - Get(x.year)))
                       = x.citations * x.citation_rate[2]
        /\ \A i, j \in 1..Len(rk_result) :
               i < j => RankedNotAfter(rk_result[i], rk_result[j])

\* two returned works equal in rate, citation count and year whose titles
\* differ, given in ascending title order
C10_Witness ==
    /\ rk_pc = "done"
    /\ Len(rk_result) = 2 /\ Len(rk_works) = 2
    /\ rk_works[1].year = rk_works[2].year
    /\ rk_works[1].citations = rk_works[2].citations
    /\ rk_works[1].citations > 0
    /\ StrLess(TitleOrEmpty(rk_works[1]), TitleOrEmpty(rk_works[2]))

----------------------------------------------------------------------------
(* Specifications of fetch_openalex_works *)

\* sizes of the pages the source serves
BatchSizes == { 0, per_page \div 2, per_page }
\* the next_cursor values the source answers with
NextCursors == { None, Some(""), Some("c1"), Some("c2") }
ErrorStatuses == { 404, 429, 500 }
TextLens == { 0, 250 }

InitFetch ==
    /\ f_pc = "request" /\ cursor = "*" /\ works_len = 0
    /\ r = None /\ f_exc = None /\ f_result = None
    /\ CoauthorIdle /\ RateIdle /\ SearchIdle /\ RankingIdle /\ PagedIdle

\* any source
NextFetch ==
    \/ \E n \in BatchSizes, nc \in NextCursors : Page200(n, nc) /\ UNCHANGED pVars
    \/ \E st \in ErrorStatuses, t \in TextLens : PageNon200(st, t) /\ UNCHANGED pVars
    \/ PageTimeout /\ UNCHANGED pVars

SpecFetch == InitFetch /\ [][NextFetch]_vars

\* a source that answers every request with 200 and a non-empty next cursor
NextUnlimited ==
    \E n \in BatchSizes, nc \in { Some("c1"), Some("c2") } :
        Page200(n, nc) /\ UNCHANGED pVars

\* the loop awaits the next response as long as the source answers
SpecUnlimited == InitFetch /\ [][NextUnlimited]_vars /\ WF_vars(NextUnlimited)

ReturnedPastCap ==
    /\ f_pc = "returned" /\ IsNone(f_exc)
    /\ f_result = Some(works_len) /\ works_len > RecordCap

\* C5 (as stated): against a source of unlimited pages, whatever the batch
\* sizes, the fetch eventually returns the accumulated records, more than
\* 15,000 of them, without raising.
C5_StopsAsStated == <>ReturnedPastCap

\* C5 (amended): against a source of unlimited pages each of which holds at
\* least one record, the fetch eventually returns the accumulated records,
\* more than 15,000 of them, without raising: either some page is empty or
\* the fetch returns past the cap.
C5_StopsUnlessEmptyPage ==
    <>(ReturnedPastCap \/ (~IsNone(r) /\ Get(r).results_len = 0))

C5_Witness == ReturnedPastCap /\ Get(r).results_len > 0

\* C6: a non-200 answer to any page request stops the fetch at that request:
\* HTTPException 502 carrying the upstream status is raised, nothing is
\* returned, and no further request is issued.
C6_Non200Aborts ==
    /\ [](  (~IsNone(r) /\ Get(r).status_code # 200) =>
              /\ f_pc = "raised"
              /\ f_exc = Some(HTTPException(502, Get(r).status_code,
                                            Min(Get(r).text_len, 200)))
              /\ IsNone(f_result))
    /\ [][f_pc = "raised" => UNCHANGED fVars]_vars

\* a later page answered with a non-200 status after records were accumulated
C6_Witness ==
    /\ f_pc = "raised" /\ ~IsNone(r) /\ Get(r).status_code = 500
    /\ works_len > per_page

\* C7: a page request that times out gives the caller the same gateway
\* error (HTTPException 502) as a non-200 status: whenever the fetch has
\* raised, what it raised is an HTTPException with status 502.
C7_TimeoutIsGatewayError ==
    f_pc = "raised" =>
        /\ ~IsNone(f_exc)
        /\ Get(f_exc).type = "HTTPException"
        /\ Get(f_exc).status_code = Some(502)

----------------------------------------------------------------------------
(* Specification of search_openalex_authors *)

MaxCandidates == 3      \* candidates in the search response

CandidatePool ==
    { [id |-> None, display_name |-> "No Id"],
      [id |-> Some(""), display_name |-> "Empty Id"],
      [id |-> Some("A1"), display_name |-> "Ann Lee"],
      [id |-> Some("A2"), display_name |-> "Bo Ek"] }

TaskKinds == { "ok", "non200", "exception", "timeout" }

InitSearch ==
    /\ s_pc = "search" /\ results = <<>> /\ out = <<>>
    /\ tasks = <<>> /\ concepts_list = <<>> /\ s_exc = None
    /\ CoauthorIdle /\ RateIdle /\ FetchIdle /\ RankingIdle /\ PagedIdle

NextSearch ==
    \/ \E res \in SeqsUpTo(CandidatePool, MaxCandidates) : SearchOk(res)
    \/ \E st \in ErrorStatuses, t \in TextLens : SearchNon200(st, t)
    \/ \E i \in 1..MaxCandidates + 1, kind \in TaskKinds : TaskFinish(i, kind)
    \/ GatherJoin

SpecSearch == InitSearch /\ [][NextSearch]_vars

\* index in tasks of the task of candidate k (which has an id)
TaskOf(k) == Cardinality({ j \in 1..k : HasCandidateId(results[j]) })

\* C8: whatever the candidates and the order and outcomes of the tasks, the
\* search returns every candidate, each with the tags of its own task, or
\* with no tag if that task failed or the candidate has no id; a failing
\* task never fails the search.
C8_PositionalJoin ==
    /\ (s_pc = "raised" => Len(tasks) = 0)
    /\ (s_pc = "returned" =>
          /\ Len(out) = Len(results)
          /\ \A k \in 1..Len(out) :
               /\ out[k].id = results[k].id
               /\ out[k].display_name = results[k].display_name
               /\ out[k].concepts =
                    IF ~HasCandidateId(results[k]) THEN <<>>
                    ELSE IF tasks[TaskOf(k)].kind = "ok"
                         THEN compute_author_concepts(SourceWorks(Get(results[k].id)),
                                                      top_concepts_per_author)
                         ELSE <<>>)

\* a search returned where a candidate without id precedes two candidates
\* with ids, one whose task failed and one whose task succeeded
C8_Witness ==
    /\ s_pc = "returned"
    /\ Len(out) = 3
    /\ ~HasCandidateId(out[1])
    /\ Len(tasks) = 2
    /\ tasks[1].kind \in {"exception", "timeout"}
    /\ tasks[2].kind = "ok"
    /\ out[3].concepts # <<>>

----------------------------------------------------------------------------
(* The /ranking endpoint.  normalize_work keeps the fields the rankings    *)
(* read (id, title, year, citations, url, type); doi, authors and          *)
(* primary_location are display fields and are left out.                   *)

TOP_PAPERS == 30
TOP_COAUTHORS == 30

normalize_work(w) ==
    [id        |-> w.id,
     title     |-> w.title,
     year      |-> w.publication_year,
     citations |-> IF IsNone(w.cited_by_count) THEN 0 ELSE Get(w.cited_by_count),
     url       |-> w.id,
     type      |-> w.type]

\* variant of NormalizedWorks that keeps the works without a year
NormalizedWorksUnfiltered(raw) ==
    [i \in 1..Len(raw) |-> normalize_work(raw[i])]

\* works = [normalize_work(w) for w in raw if w.get("publication_year") is not None]
NormalizedWorks(raw) ==
    LET kept == SelectSeq(raw, LAMBDA w : ~IsNone(w.publication_year))
    IN  [i \in 1..Len(kept) |-> normalize_work(kept[i])]

\* the dict the endpoint returns, for the list raw that the fetch returned
ranking(raw, author_id, now_year) ==
    LET ws == NormalizedWorks(raw)
        paper_ranking == compute_rate_ranking(ws, TOP_PAPERS, now_year)
        co == compute_coauthor_ranking_articles_only_merge_by_name(
                  raw, author_id, TOP_COAUTHORS)
    IN  [author_id             |-> author_id,
         count_works_total     |-> Len(raw),
         count_works_with_year |-> Len(ws),
         current_year          |-> now_year,
         paper_ranking         |-> paper_ranking,
         counted_article_works |-> co.counted_articles,
         coauthor_ranking      |-> co.items]

MaxRaw == 3     \* records the fetch returned

\* (a) 2020, 100 citations, article; (b) 2024, 10 citations, article;
\* (c) no year, book-chapter; (a') a second record equal to (a) but for its id
PubA ==
    [id |-> "W1", title |-> Some(TitleA), publication_year |-> Some(2020),
     cited_by_count |-> Some(100), type |-> TypeArticle,
     authorships |-> << Author(Some(IdX), Some(JohnSmith)) >>]
PubB ==
    [id |-> "W2", title |-> Some(TitleAb), publication_year |-> Some(2024),
     cited_by_count |-> Some(10), type |-> TypeArticle,
     authorships |-> << Author(Some(IdY), Some(JohnSmithWide)) >>]
PubC ==
    [id |-> "W3", title |-> None, publication_year |-> None,
     cited_by_count |-> None, type |-> TypeBookChapter,
     authorships |-> << >>]
PubA2 ==
    [id |-> "W4", title |-> Some(TitleA), publication_year |-> Some(2020),
     cited_by_count |-> Some(100), type |-> TypeArticle,
     authorships |-> << >>]

RawPool == { PubA, PubB, PubC, PubA2 }

InitRanking ==
    /\ rq_raw \in SeqsUpTo(RawPool, MaxRaw)
    /\ rq_author_id \in { SubjectBare, SubjectFull }
    /\ rq_pc = "ready"
    /\ rq_response = <<>>
    /\ now \in CurrentYears
    /\ rk_works = <<>> /\ rk_top_n = 0 /\ rk_pc = "idle" /\ rk_result = <<>>
    /\ CoauthorIdle /\ FetchIdle /\ SearchIdle /\ PagedIdle

\* the handler after raw = await fetch_openalex_works(author_id)
RankingCall ==
    /\ rq_pc = "ready"
    /\ rq_response' = ranking(rq_raw, rq_author_id, now)
    /\ rq_pc' = "done"
    /\ UNCHANGED <<rq_raw, rq_author_id, coVars, rkVars, fVars, sVars, pVars>>

SpecRanking == InitRanking /\ [][RankingCall]_vars

\* every ordering of the sequence s
SeqPerms(s) ==
    { [i \in 1..Len(s) |-> s[f[i]]] : f \in Permutations(1..Len(s)) }

IsYearScenario == rq_raw \in SeqPerms(<<PubA, PubB, PubC>>) /\ now = 2025

\* C13: a publication without a year counts in count_works_total but not in
\* count_works_with_year and never appears in the paper ranking; for (a),
\* (b), (c) with current year 2025 the paper ranking is exactly [a, b] with
\* rates 100/6 and 10/2, and count_works_total is 3.
C13_YearlessCountedNotRanked ==
    rq_pc = "done" =>
        LET items == rq_response.paper_ranking
            withYear == { i \in 1..Len(rq_raw) : ~IsNone(rq_raw[i].publication_year) }
        IN  /\ rq_response.count_works_total = Len(rq_raw)
            /\ rq_response.count_works_with_year = Cardinality(withYear)
            /\ Len(items) = Min(TOP_PAPERS, Cardinality(withYear))
            /\ \A k \in 1..Len(items) :
                   \E i \in withYear : rq_raw[i].id = items[k].id
            /\ IsYearScenario =>
                   /\ Len(items) = 2
                   /\ items[1].id = "W1" /\ items[1].citation_rate = <<100, 6>>
                   /\ items[2].id = "W2" /\ items[2].citation_rate = <<10, 2>>
                   /\ rq_response.count_works_total = 3

C13_Witness == rq_pc = "done" /\ IsYearScenario

\* the fields of an aggregate that the order of arrival must not change
AggregateView(items) ==
    [k \in 1..Len(items) |->
        [name       |-> items[k].name,
         count      |-> items[k].count,
         author_id  |-> items[k].author_id,
         merged_ids |-> items[k].merged_ids]]

\* C11: for every ordering of the same fetched records the paper ranking is
\* the same ordered list and the co-author ranking is the same ordered list
\* of aggregates with the same name, count, author_id and merged_ids.
C11_ArrivalOrderIrrelevant ==
    rq_pc = "done" =>
        \A p \in SeqPerms(rq_raw) :
            /\ compute_rate_ranking(NormalizedWorks(p), TOP_PAPERS, now)
                   = rq_response.paper_ranking
            /\ AggregateView(
                   compute_coauthor_ranking_articles_only_merge_by_name(
                       p, rq_author_id, TOP_COAUTHORS).items)
                   = AggregateView(rq_response.coauthor_ranking)

----------------------------------------------------------------------------
(* The scope filter of the co-author ranking: works of every kind of type  *)
(* tag, two co-authors with distinct names.                                *)

ScopePool ==
    { Author(Some(IdX), Some(JohnSmith)),
      Author(Some(IdY), Some(AnnLee)) }

ScopeTypes == { TypeArticle, TypeArticleLoose, TypeBookChapter, None }

InitScope ==
    /\ InitCoauthor(ScopePool, ScopeTypes, {SubjectBare})
    /\ RateIdle /\ FetchIdle /\ SearchIdle /\ RankingIdle /\ PagedIdle

SpecScope == InitScope /\ [][CoauthorCall]_vars

\* the type tag, trimmed and compared without regard to case, is "article"
IsArticleTag(t) == ~IsNone(t) /\ Lower(Strip(Get(t))) = ArticleStr

\* works of another type, or of no type, that may be added or substituted
OtherWorks ==
    { [type |-> t, authorships |-> as] :
        t \in { TypeBookChapter, None },
        as \in { <<>>, << Author(Some(IdX), Some(JohnSmith)) >>,
                 << Author(Some(IdY), Some(JDotSmith)) >> } }

InsertAt(ws, k, w) == SubSeq(ws, 1, k) \o <<w>> \o SubSeq(ws, k + 1, Len(ws))

ItemsOf(rws) ==
    compute_coauthor_ranking_articles_only_merge_by_name(
        rws, main_author_id, co_top_n).items

\* C12: only works whose type tag, trimmed and compared case-insensitively,
\* equals "article" contribute: removing every other work, adding one, or
\* changing one into another leaves the aggregates unchanged, and the second
\* returned value is the number of qualifying articles of the input.
C12_OnlyArticlesContribute ==
    co_pc = "done" =>
        /\ co_result.counted_articles =
               Cardinality({ i \in 1..Len(raw_works) : IsArticleTag(raw_works[i].type) })
        /\ Items = ItemsOf(SelectSeq(raw_works, LAMBDA w : IsArticleTag(w.type)))
        /\ \A w \in OtherWorks :
               /\ \A k \in 0..Len(raw_works) :
                      Items = ItemsOf(InsertAt(raw_works, k, w))
               /\ \A i \in 1..Len(raw_works) :
                      ~IsArticleTag(raw_works[i].type) =>
                          Items = ItemsOf([raw_works EXCEPT ![i] = w])

C12_Witness ==
    /\ co_pc = "done"
    /\ Len(Items) > 0
    /\ \E i \in 1..Len(raw_works) :
           raw_works[i].type = TypeArticleLoose /\ Len(raw_works[i].authorships) > 0
    /\ \E i \in 1..Len(raw_works) :
           ~IsArticleTag(raw_works[i].type) /\ Len(raw_works[i].authorships) > 0

----------------------------------------------------------------------------
(* Authorship entries that lack an identifier or a usable display name.    *)

Blanks == <<32, 32>>                                                   \* "  "

SkipPool ==
    { Author(None, Some(AnnLee)),
      Author(Some(IdX), None),
      Author(Some(IdY), Some(<<>>)),
      Author(Some(IdY), Some(Blanks)),
      Author(Some(IdX), Some(AnnLee)) }

InitSkip ==
    /\ InitCoauthor(SkipPool, {TypeArticle}, {SubjectBare})
    /\ RateIdle /\ FetchIdle /\ SearchIdle /\ RankingIdle /\ PagedIdle

SpecSkip == InitSkip /\ [][CoauthorCall]_vars

\* an entry with no identifier, or whose display name (absent and empty
\* included) normalizes to the empty key
IsNameless(a) ==
    \/ ~HasId(a)
    \/ IsNone(a.display_name)
    \/ normalize_person_name(Get(a.display_name)) = <<>>

WithoutNameless(rws) ==
    [i \in 1..Len(rws) |->
        [rws[i] EXCEPT !.authorships = SelectSeq(@, LAMBDA a : ~IsNameless(a))]]

\* C14: an authorship entry with no identifier, or whose display name is
\* absent, empty or normalizes to the empty key, is skipped: the aggregates
\* are those of the input without these entries.
C14_NamelessSkipped ==
    co_pc = "done" => Items = ItemsOf(WithoutNameless(raw_works))

----------------------------------------------------------------------------
(* The identifier resolved for an aggregate *)

\* positions, in scan order, of the co-author entries of identifier id
\* under name key key
Occurrences(key, id) ==
    { j \in 1..Len(CoauthorEntries) :
        EntryKey(CoauthorEntries[j]) = key /\ Get(CoauthorEntries[j].id) = id }

FirstSeen(key, id) ==
    CHOOSE j \in Occurrences(key, id) : \A k \in Occurrences(key, id) : j <= k

\* C15: the author_id of every aggregate is an identifier observed under its
\* name key with the greatest occurrence count among the identifiers of the
\* key, the first seen of those tied at that count; merged_ids is the number
\* of distinct identifiers observed under the key, hence at least 1.
C15_ResolvedIdentifier ==
    co_pc = "done" =>
        \A i \in 1..Len(Items) :
            LET key == Items[i].name_key
                aid == Items[i].author_id
            IN  /\ aid \in IdsUnder(key)
                /\ \A id \in IdsUnder(key) :
                       \/ Cardinality(Occurrences(key, id)) < Cardinality(Occurrences(key, aid))
                       \/ /\ Cardinality(Occurrences(key, id)) = Cardinality(Occurrences(key, aid))
                          /\ FirstSeen(key, aid) <= FirstSeen(key, id)
                /\ Items[i].merged_ids = Cardinality(IdsUnder(key))
                /\ Items[i].merged_ids >= 1

\* an aggregate resolved to an identifier that was not the first seen
C15_Witness ==
    /\ co_pc = "done"
    /\ \E i \in 1..Len(Items) :
           /\ Items[i].merged_ids = 2
           /\ \E id \in IdsUnder(Items[i].name_key) :
                  FirstSeen(Items[i].name_key, id)
                      < FirstSeen(Items[i].name_key, Items[i].author_id)

----------------------------------------------------------------------------
(* fetch_openalex_works against a source that serves a fixed page per      *)
(* cursor.  The records of works are kept as runs: the n records of the    *)
(* k-th response are the run [page |-> k, n |-> n].  A page without        *)
(* records is the last page of its listing.                                *)

\* variant of Extend that puts the new records in front
ExtendFront(ws, batch) == batch \o ws

\* works.extend(results)
Extend(ws, batch) == ws \o batch

\* results of the k-th response
Batch(k, n) == IF n = 0 THEN <<>> ELSE << [page |-> k, n |-> n] >>

Cursors == { "*", "c1", "c2" }

Pages ==
    { [n |-> n, next_cursor |-> nc] :
        n \in { per_page, 2 * per_page }, nc \in { None, Some("c1"), Some("c2") } }
    \cup { [n |-> 0, next_cursor |-> None] }

InitPaged ==
    /\ source \in [Cursors -> Pages]
    /\ requests = <<>>
    /\ works = <<>>
    /\ f_pc = "request" /\ cursor = "*" /\ works_len = 0
    /\ r = None /\ f_exc = None /\ f_result = None
    /\ CoauthorIdle /\ RateIdle /\ SearchIdle /\ RankingIdle

\* one turn of the loop: the request with the current cursor, answered by
\* the source with status 200
PagedRequest ==
    /\ Page200(source[cursor].n, source[cursor].next_cursor)
    /\ requests' = Append(requests, [cursor      |-> cursor,
                                     n           |-> source[cursor].n,
                                     next_cursor |-> source[cursor].next_cursor])
    /\ works' = Extend(works, Batch(Len(requests) + 1, source[cursor].n))
    /\ UNCHANGED source

SpecPaged == InitPaged /\ [][PagedRequest]_vars

\* number of records of the first k entries of a list of runs or responses
RECURSIVE Records(_, _)
Records(runs, k) == IF k = 0 THEN 0 ELSE runs[k].n + Records(runs, k - 1)

\* the batches of the first k requests, in the order of the requests
RECURSIVE BatchesInOrder(_)
BatchesInOrder(k) ==
    IF k = 0 THEN <<>> ELSE BatchesInOrder(k - 1) \o Batch(k, requests[k].n)

\* C16: the first request uses cursor "*" and every later request the
\* next_cursor of the response just before it; a request is issued only
\* while at most 15,000 records are accumulated; the returned list is the
\* in-order concatenation of the batches of the pages requested and, when
\* every such page holds at most per_page records, has at most
\* 15,000 + per_page records.
C16_Pagination ==
    /\ Len(requests) >= 1 => requests[1].cursor = "*"
    /\ \A k \in 2..Len(requests) :
           /\ ~NoCursor(requests[k - 1].next_cursor)
           /\ requests[k].cursor = Get(requests[k - 1].next_cursor)
    /\ \A k \in 1..Len(requests) : Records(requests, k - 1) <= RecordCap
    /\ works_len = Records(works, Len(works))
    /\ f_pc = "returned" =>
           /\ works = BatchesInOrder(Len(requests))
           /\ f_result = Some(Records(works, Len(works)))
           /\ (\A k \in 1..Len(requests) : requests[k].n <= per_page) =>
                  Records(works, Len(works)) <= RecordCap + per_page

\* a fetch that returned past the cap after following both cursors, every
\* page holding per_page records at most
C16_Witness ==
    /\ f_pc = "returned"
    /\ Records(works, Len(works)) > RecordCap
    /\ \A k \in 1..Len(requests) : requests[k].n <= per_page
    /\ \E k \in 1..Len(requests) : requests[k].cursor = "c1"
    /\ \E k \in 1..Len(requests) : requests[k].cursor = "c2"

====
